---- MODULE Spec2Model ----
(***************************************************************************)
(* The resource provider manager (src/resource_provider/manager.cpp) as a  *)
(* state machine.  One action per turn of the ResourceProviderManager      *)
(* actor (api, the four host operations, the deferred reader-closed        *)
(* observer) and one for the HTTP runtime closing the read end of a pipe.  *)
(***************************************************************************)
EXTENDS Integers, Sequences, FiniteSets, TLC

\* Bounds of the model.
NumProviders == 2   \* distinct resource provider IDs
MaxSessions == 3    \* SUBSCRIBE calls (ResourceProvider instances) per run
MaxUuids == 2       \* publish UUIDs issued per run
MaxEvents == 1      \* events written before the last APPLY, ACKNOWLEDGE or RECONCILE
MaxMessages == 2    \* messages put on the host-facing queue
MaxOps == 2         \* operations in one ReconcileOfferOperationsMessage
BoundedSessions == 2  \* SUBSCRIBE calls per run of BoundedSpec
BoundedUuids == 1     \* publish UUIDs issued per run of BoundedSpec

ProviderIDs == 1..NumProviders
Sessions == 1..MaxSessions
Uuids == 1..MaxUuids

VARIABLES
  subscribed,    \* resourceProviders.subscribed: provider ID -> session, 0 = no entry
  streams,       \* number of SUBSCRIBE calls api has handed to subscribe
  streamId,      \* HttpConnection::streamId of each session, 0 = not constructed
  info,          \* ResourceProvider::info.id() of each session, 0 = not constructed
  writeEnd,      \* write end of the session's pipe
  readEnd,       \* read end of the session's pipe
  closed,        \* the http.closed() observer of the session
  publishes,     \* ResourceProvider::publishes: the UUIDs that are keys of the map
  promise,       \* state of the Promise<Nothing> created for each publish UUID
  completions,   \* how often set() or fail() was invoked on that promise
  wire,          \* the events written to the session's pipe, in order
  messages,      \* ResourceProviderManagerProcess::messages
  calls,         \* the lists of futures publishResources handed to collect
  crashed        \* a CHECK failed and aborted the process

vars == <<subscribed, streams, streamId, info, writeEnd, readEnd, closed, publishes,
          promise, completions, wire, messages, calls, crashed>>

----------------------------------------------------------------------------
\* HttpConnection

\* Pipe::Writer::write ignores the data and returns false unless both ends are
\* open (0 is no session).
CanSend(s) == s # 0 /\ writeEnd[s] = "OPEN" /\ readEnd[s] = "OPEN"

\* HttpConnection::send on session s: the pipe after the write, in a wire map w.
Send(w, s, event) ==
  IF CanSend(s) THEN [w EXCEPT ![s] = Append(@, event)] ELSE w

\* Promise::fail / Promise::set complete a pending promise and are no-ops otherwise.
Complete(state, outcome) == IF state = "PENDING" THEN outcome ELSE state

----------------------------------------------------------------------------
\* ResourceProvider

\* The two errors a publish promise is failed with.
CONNECTION_CLOSED == "FAILED: Connection closed"
RECEIVED_STATUS == "FAILED: Received status"
Failed == {CONNECTION_CLOSED, RECEIVED_STATUS}

\* A destructor that leaves the promises alone.
KeepPublishes(s) == promise

\* A destructor that fails the promises with the error of a status report.
FailPublishesWithStatus(s) ==
  [u \in Uuids |-> IF u \in publishes[s]
                     THEN Complete(promise[u], RECEIVED_STATUS)
                   ELSE promise[u]]

\* ~ResourceProvider: the promises after every publish of session s was failed.
FailPublishes(s) ==
  [u \in Uuids |-> IF u \in publishes[s]
                     THEN Complete(promise[u], CONNECTION_CLOSED)
                   ELSE promise[u]]

\* ~ResourceProvider: one more completion for every publish of session s.
CountPublishes(s) ==
  [u \in Uuids |-> IF u \in publishes[s] THEN completions[u] + 1
                   ELSE completions[u]]

----------------------------------------------------------------------------
Init ==
  /\ subscribed = [p \in ProviderIDs |-> 0]
  /\ streams = 0
  /\ streamId = [s \in Sessions |-> 0]
  /\ info = [s \in Sessions |-> 0]
  /\ writeEnd = [s \in Sessions |-> "OPEN"]
  /\ readEnd = [s \in Sessions |-> "OPEN"]
  /\ closed = [s \in Sessions |-> "NONE"]
  /\ publishes = [s \in Sessions |-> {}]
  /\ promise = [u \in Uuids |-> "NONE"]
  /\ completions = [u \in Uuids |-> 0]
  /\ wire = [s \in Sessions |-> <<>>]
  /\ messages = <<>>
  /\ calls = {}
  /\ crashed = FALSE

----------------------------------------------------------------------------
\* The requests api is given.  contentType "NONE" is a missing Content-Type
\* header, streamId 0 a missing Mesos-Stream-Id header, pid 0 a SUBSCRIBE whose
\* ResourceProviderInfo has no ID, uuid 0 bytes that UUID::fromBytes rejects.
\* pipeOpen is what the write of the SUBSCRIBED event to the new pipe returns.

APPLICATION_JSON == "application/json"
APPLICATION_PROTOBUF == "application/x-protobuf"

CallTypes == {"UNKNOWN", "UPDATE_OFFER_OPERATION_STATUS", "UPDATE_STATE",
              "UPDATE_PUBLISH_RESOURCES_STATUS"}

Request(method, contentType, parses, valid, type, accept, pid, header, uuid, status, pipeOpen) ==
  [method |-> method, contentType |-> contentType, parses |-> parses,
   valid |-> valid, type |-> type, accept |-> accept, pid |-> pid,
   streamId |-> header, uuid |-> uuid, status |-> status,
   pipeOpen |-> pipeOpen]

SubscribeRequests ==
  { Request("POST", APPLICATION_JSON, TRUE, TRUE, "SUBSCRIBE", "", p, 0, 0,
            "OK", po) : p \in 0..NumProviders, po \in BOOLEAN }

CallRequest(t, p, st) ==
  Request("POST", APPLICATION_JSON, TRUE, TRUE, t, "", p, st, 1, "OK", TRUE)

CallRequests ==
  { CallRequest(t, p, st) :
      t \in CallTypes \ {"UPDATE_PUBLISH_RESOURCES_STATUS"},
      p \in ProviderIDs, st \in 0..MaxSessions }

StatusRequest(p, st, u, status) ==
  Request("POST", APPLICATION_JSON, TRUE, TRUE,
          "UPDATE_PUBLISH_RESOURCES_STATUS", "", p, st, u, status, TRUE)

Statuses == {"OK", "FAILED"}

StatusRequests ==
  { StatusRequest(p, st, u, status) :
      p \in ProviderIDs, st \in 0..MaxSessions, u \in 0..MaxUuids,
      status \in Statuses }

\* Requests that differ from an acceptable one in a single header or flag.
OtherRequests ==
  LET subscribeCall == Request("POST", APPLICATION_JSON, TRUE, TRUE,
                               "SUBSCRIBE", "", 0, 0, 0, "OK", TRUE)
  IN { [subscribeCall EXCEPT !.method = "GET"],
       [subscribeCall EXCEPT !.contentType = "NONE"],
       [subscribeCall EXCEPT !.contentType = "text/plain"],
       [subscribeCall EXCEPT !.contentType = "Application/JSON"],
       [subscribeCall EXCEPT !.contentType = APPLICATION_PROTOBUF],
       [subscribeCall EXCEPT !.parses = FALSE],
       [subscribeCall EXCEPT !.valid = FALSE],
       [subscribeCall EXCEPT !.accept = APPLICATION_JSON],
       [subscribeCall EXCEPT !.accept = APPLICATION_PROTOBUF],
       [subscribeCall EXCEPT !.accept = "text/plain"],
       [subscribeCall EXCEPT !.streamId = 1] }

Requests == SubscribeRequests \cup CallRequests \cup StatusRequests
              \cup OtherRequests

\* request.acceptsMediaType: an empty Accept header accepts every media type.
AcceptsMediaType(req, mediaType) == req.accept \in {"", mediaType}

\* Response without the comparison of the Mesos-Stream-Id header.
ResponseUnfenced(req) ==
  IF req.method # "POST" THEN 405
  ELSE IF req.contentType = "NONE" THEN 400
  ELSE IF req.contentType \notin {APPLICATION_PROTOBUF, APPLICATION_JSON} THEN 415
  ELSE IF ~req.parses THEN 400
  ELSE IF ~req.valid THEN 400
  ELSE IF req.type = "SUBSCRIBE"
    THEN IF ~AcceptsMediaType(req, APPLICATION_JSON)
            /\ ~AcceptsMediaType(req, APPLICATION_PROTOBUF) THEN 406
         ELSE IF req.streamId # 0 THEN 400
         ELSE 200
  ELSE IF subscribed[req.pid] = 0 THEN 400
  ELSE IF req.streamId = 0 THEN 400
  ELSE IF req.type = "UNKNOWN" THEN 501
  ELSE 202

\* The status code of the response api returns for req.
Response(req) ==
  IF req.method # "POST" THEN 405
  ELSE IF req.contentType = "NONE" THEN 400
  ELSE IF req.contentType \notin {APPLICATION_PROTOBUF, APPLICATION_JSON} THEN 415
  ELSE IF ~req.parses THEN 400
  ELSE IF ~req.valid THEN 400
  ELSE IF req.type = "SUBSCRIBE"
    THEN IF ~AcceptsMediaType(req, APPLICATION_JSON)
            /\ ~AcceptsMediaType(req, APPLICATION_PROTOBUF) THEN 406
         ELSE IF req.streamId # 0 THEN 400
         ELSE 200
  ELSE IF subscribed[req.pid] = 0 THEN 400
  ELSE IF req.streamId = 0 THEN 400
  ELSE IF req.streamId # streamId[subscribed[req.pid]] THEN 400
  ELSE IF req.type = "UNKNOWN" THEN 501
  ELSE 202

----------------------------------------------------------------------------
\* newResourceProviderId: a random UUID, hence an ID no session has carried.
UsedIds == { info[s] : s \in Sessions } \ {0}

newResourceProviderId == CHOOSE p \in ProviderIDs \ UsedIds :
                           \A q \in ProviderIDs \ UsedIds : p <= q

\* A SUBSCRIBED event that carries no provider ID.
SubscribedEventWithoutId(id) == [type |-> "SUBSCRIBED", arg |-> <<0>>]

SubscribedEvent(id) == [type |-> "SUBSCRIBED", arg |-> <<id>>]

\* A generator that returns the same stream ID every time.
ConstantStreamId(n) == 1

\* UUID::random() for the stream ID of the n-th SUBSCRIBE: a value not drawn before.
RandomStreamId(n) == n

\* A put that deletes nothing.
ReplacedNone(id) == 0

\* The session hashmap::put deletes when it stores a session under id, 0 = none.
Replaced(id) == subscribed[id]

\* A subscribe that goes on to register the session when its send failed.
subscribeIgnoringSend(s, req) ==
  LET id == IF req.pid = 0 THEN newResourceProviderId ELSE req.pid
      old == subscribed[id]
  IN /\ streams' = s
     /\ streamId' = [streamId EXCEPT ![s] = RandomStreamId(s)]
     /\ info' = [info EXCEPT ![s] = id]
     /\ readEnd' = [readEnd EXCEPT ![s] = IF req.pipeOpen THEN "OPEN" ELSE "CLOSED"]
     /\ wire' = [wire EXCEPT ![s] = IF req.pipeOpen THEN <<SubscribedEvent(id)>>
                                    ELSE <<>>]
     /\ closed' = [closed EXCEPT ![s] = IF req.pipeOpen THEN "PENDING"
                                        ELSE "DISPATCHED"]
     /\ subscribed' = [subscribed EXCEPT ![id] = s]
     /\ writeEnd' = IF old = 0 THEN writeEnd
                    ELSE [writeEnd EXCEPT ![old] = "CLOSED"]
     /\ promise' = IF old = 0 THEN promise ELSE FailPublishes(old)
     /\ completions' = IF old = 0 THEN completions ELSE CountPublishes(old)
     /\ publishes' = IF old = 0 THEN publishes
                     ELSE [publishes EXCEPT ![old] = {}]
     /\ UNCHANGED <<messages, calls, crashed>>

\* subscribe(http, subscribe) for the session s api has made the connection of.
subscribe(s, req) ==
  LET id == IF req.pid = 0 THEN newResourceProviderId ELSE req.pid
      old == Replaced(id)
  IN /\ streams' = s
     /\ streamId' = [streamId EXCEPT ![s] = RandomStreamId(s)]
     /\ info' = [info EXCEPT ![s] = id]
     /\ readEnd' = [readEnd EXCEPT ![s] = IF req.pipeOpen THEN "OPEN" ELSE "CLOSED"]
     /\ UNCHANGED <<messages, calls, crashed>>
     /\ IF ~req.pipeOpen
          THEN \* the send failed: return, and the new ResourceProvider is destroyed
               /\ writeEnd' = [writeEnd EXCEPT ![s] = "CLOSED"]
               /\ UNCHANGED <<subscribed, closed, publishes, promise,
                              completions, wire>>
          ELSE /\ wire' = [wire EXCEPT ![s] = <<SubscribedEvent(id)>>]
               /\ closed' = [closed EXCEPT ![s] = "PENDING"]
               /\ subscribed' = [subscribed EXCEPT ![id] = s]
               /\ IF old = 0
                    THEN UNCHANGED <<writeEnd, publishes, promise, completions>>
                    ELSE \* hashmap::put erases the old entry: ~ResourceProvider
                         /\ writeEnd' = [writeEnd EXCEPT ![old] = "CLOSED"]
                         /\ promise' = FailPublishes(old)
                         /\ completions' = CountPublishes(old)
                         /\ publishes' = [publishes EXCEPT ![old] = {}]

updateOfferOperationStatus(s, req) ==
  /\ messages' = Append(messages,
                   [type |-> "UPDATE_OFFER_OPERATION_STATUS", arg |-> req.uuid])
  /\ UNCHANGED <<subscribed, streams, streamId, info, writeEnd, readEnd,
                 closed, publishes, promise, completions, wire, calls, crashed>>

\* An updateState that puts its message in front of the queue.
updateStateInFront(s, req) ==
  /\ messages' = <<[type |-> "UPDATE_STATE", arg |-> info[s]]>> \o messages
  /\ UNCHANGED <<subscribed, streams, streamId, info, writeEnd, readEnd,
                 closed, publishes, promise, completions, wire, calls, crashed>>

updateState(s, req) ==
  /\ messages' = Append(messages, [type |-> "UPDATE_STATE", arg |-> info[s]])
  /\ UNCHANGED <<subscribed, streams, streamId, info, writeEnd, readEnd,
                 closed, publishes, promise, completions, wire, calls, crashed>>

\* Only the parse of the UUID is checked.
KnownAny(s, uuid) == uuid # 0

\* The checks of updatePublishResourcesStatus: the UUID parses and is a key
\* of the session's publishes.
Known(s, uuid) == uuid # 0 /\ uuid \in publishes[s]

\* Every status fails the promise.
OutcomeFailed(status) == RECEIVED_STATUS

\* Every status sets the promise.
OutcomeReady(status) == "READY"

\* What the promise is completed with for a reported status.
Outcome(status) == IF status = "OK" THEN "READY" ELSE RECEIVED_STATUS

\* An updatePublishResourcesStatus that leaves the completed entry in the map.
updatePublishResourcesStatusKeeping(s, req) ==
  /\ UNCHANGED <<subscribed, streams, streamId, info, writeEnd, readEnd, closed,
                 wire, messages, calls, crashed, publishes>>
  /\ IF ~Known(s, req.uuid)
       THEN UNCHANGED <<promise, completions>>
       ELSE /\ promise' = [promise EXCEPT ![req.uuid] =
                               Complete(@, Outcome(req.status))]
            /\ completions' = [completions EXCEPT ![req.uuid] = @ + 1]

updatePublishResourcesStatus(s, req) ==
  /\ UNCHANGED <<subscribed, streams, streamId, info, writeEnd, readEnd, closed,
                 wire, messages, calls, crashed>>
  /\ IF ~Known(s, req.uuid)
       THEN UNCHANGED <<publishes, promise, completions>>
       ELSE /\ promise' = [promise EXCEPT ![req.uuid] =
                               Complete(@, Outcome(req.status))]
            /\ completions' = [completions EXCEPT ![req.uuid] = @ + 1]
            /\ publishes' = [publishes EXCEPT ![s] = @ \ {req.uuid}]

\* ResourceProviderManagerProcess::api
Api(req) ==
  /\ ~crashed
  /\ IF Response(req) \notin {200, 202}
       THEN UNCHANGED vars
       ELSE IF req.type = "SUBSCRIBE"
         THEN /\ streams < MaxSessions
              /\ req.pid = 0 => ProviderIDs \ UsedIds # {}
              /\ subscribe(streams + 1, req)
         ELSE /\ TRUE
              /\ CASE req.type = "UPDATE_OFFER_OPERATION_STATUS" ->
                        /\ Len(messages) < MaxMessages
                        /\ updateOfferOperationStatus(subscribed[req.pid], req)
                   [] req.type = "UPDATE_STATE" ->
                        /\ Len(messages) < MaxMessages
                        /\ updateState(subscribed[req.pid], req)
                   [] req.type = "UPDATE_PUBLISH_RESOURCES_STATUS" ->
                        updatePublishResourcesStatus(subscribed[req.pid], req)

----------------------------------------------------------------------------
\* Host operations.  The host starts no offer operation once MaxEvents of
\* their events were written (publish events are bounded by MaxUuids).
OperationEvents == {"APPLY_OFFER_OPERATION", "ACKNOWLEDGE_OFFER_OPERATION",
                    "RECONCILE_OFFER_OPERATIONS"}

EventsSent ==
  LET F[s \in 0..MaxSessions] ==
        IF s = 0 THEN 0
        ELSE F[s - 1] + Cardinality({ i \in 1..Len(wire[s]) :
                                       wire[s][i].type \in OperationEvents })
  IN F[MaxSessions]

Room(n) == EventsSent + n <= MaxEvents

HostFrame == <<subscribed, streams, streamId, info, writeEnd, readEnd, closed, publishes,
               promise, completions, messages, calls, crashed>>

\* The messages applyOfferOperation is given: whether the operation UUID
\* parses, and the provider ID getResourceProviderId derives (0 = none or
\* error).  The resource version UUID names the same provider (the CHECKs).
ApplyMessages == [uuidOk : BOOLEAN, pid : 0..NumProviders]

ApplyEvent == [type |-> "APPLY_OFFER_OPERATION", arg |-> <<>>]

\* An applyOfferOperation that erases the registry entry when its send fails.
applyOfferOperationErasing(message) ==
  /\ ~crashed
  /\ message.uuidOk
  /\ message.pid # 0
  /\ subscribed[message.pid] # 0
  /\ ~CanSend(subscribed[message.pid])
  /\ subscribed' = [subscribed EXCEPT ![message.pid] = 0]
  /\ UNCHANGED <<streams, streamId, info, writeEnd, readEnd, closed, publishes,
                 promise, completions, wire, messages, calls, crashed>>

applyOfferOperation(message) ==
  /\ ~crashed
  /\ IF ~message.uuidOk \/ message.pid = 0 \/ subscribed[message.pid] = 0
       THEN UNCHANGED wire
       ELSE /\ Room(1)
            /\ wire' = Send(wire, subscribed[message.pid], ApplyEvent)
  /\ UNCHANGED HostFrame

AcknowledgeEvent == [type |-> "ACKNOWLEDGE_OFFER_OPERATION", arg |-> <<>>]

\* The message carries a provider ID (CHECK(message.has_resource_provider_id())).
acknowledgeOfferOperationUpdate(pid) ==
  /\ ~crashed
  /\ IF subscribed[pid] = 0
       THEN UNCHANGED wire
       ELSE /\ Room(1)
            /\ wire' = Send(wire, subscribed[pid], AcknowledgeEvent)
  /\ UNCHANGED HostFrame

\* A ReconcileOfferOperationsMessage: operation i has operation UUID i and
\* names provider message[i], 0 = no provider ID.
ReconcileMessages == UNION { [1..n -> 0..NumProviders] : n \in 0..MaxOps }

\* An event that lists the UUID of every operation of the message.
OperationUuidsOfAll(message, pid) == [i \in 1..Len(message) |-> i]

\* The operation UUIDs addOperation collects in events[pid], in message order.
OperationUuids(message, pid) ==
  LET F[i \in 0..Len(message)] ==
        IF i = 0 THEN <<>>
        ELSE IF message[i] = pid THEN Append(F[i - 1], i) ELSE F[i - 1]
  IN F[Len(message)]

ReconcileEvent(message, pid) ==
  [type |-> "RECONCILE_OFFER_OPERATIONS", arg |-> OperationUuids(message, pid)]

\* The keys of the local map events.
ReconcileProviders(message) ==
  { p \in ProviderIDs : subscribed[p] # 0
                        /\ \E i \in 1..Len(message) : message[i] = p }

reconcileOfferOperations(message) ==
  /\ ~crashed
  /\ Room(1)
  /\ wire' = [s \in Sessions |->
                IF \E p \in ReconcileProviders(message) : subscribed[p] = s
                   /\ CanSend(s)
                  THEN Append(wire[s], ReconcileEvent(message, info[s]))
                  ELSE wire[s]]
  /\ UNCHANGED HostFrame

----------------------------------------------------------------------------
\* publishResources

\* UUID::random(): the i-th UUID generated is i.
Issued == Cardinality({ u \in Uuids : promise[u] # "NONE" })

\* An event that carries no UUID of its own.
PublishEventWithoutUuid(uuid) == [type |-> "PUBLISH_RESOURCES", arg |-> <<0>>]

PublishEvent(uuid) == [type |-> "PUBLISH_RESOURCES", arg |-> <<uuid>>]

\* The orders in which foreachpair may visit the keys of providedResources.
Orders(ids) ==
  { o \in [1..Cardinality(ids) -> ids] :
      \A i, j \in 1..Cardinality(ids) : i # j => o[i] # o[j] }

\* The calls of publishResources: the resources and the order of the visit.
PublishCalls ==
  UNION { { [resources |-> r, order |-> o] : o \in Orders(r \ {0}) } :
          r \in SUBSET (0..NumProviders) }

\* Every send is taken to have returned true.
SentAll(order) == Len(order)

\* The number of groups visited before the first send that returns false.
Sent(order) ==
  LET failing == { i \in 1..Len(order) : ~CanSend(subscribed[order[i]]) }
  IN IF failing = {} THEN Len(order)
     ELSE (CHOOSE i \in failing : \A j \in failing : i <= j) - 1

\* collect(futures): fails as soon as one future fails, ready when all are.
Collect(futures) ==
  IF \E u \in futures : promise[u] \in Failed THEN "FAILED"
  ELSE IF \A u \in futures : promise[u] = "READY" THEN "READY"
  ELSE "PENDING"

\* The subscription of a provider is looked at only when its group is sent.
PublishResultLate(resources, order) ==
  IF Sent(order) < Len(order) THEN "SEND_FAILED" ELSE "COLLECT"

\* A resource without a provider ID is looked up in the registry like the rest.
PublishResultOfAll(resources, order) ==
  IF \E p \in resources : p = 0 \/ subscribed[p] = 0 THEN "NOT_SUBSCRIBED"
  ELSE IF Sent(order) < Len(order) THEN "SEND_FAILED"
  ELSE "COLLECT"

\* What publishResources returns: a Failure, or the future of collect.
PublishResult(resources, order) ==
  IF \E p \in resources \ {0} : subscribed[p] = 0 THEN "NOT_SUBSCRIBED"
  ELSE IF Sent(order) < Len(order) THEN "SEND_FAILED"
  ELSE "COLLECT"

\* resources: the provider IDs the resources carry, 0 = a resource without one.
publishResources(resources, order) ==
  LET ids == resources \ {0}
      k == Sent(order)
      uuid(i) == Issued + i
      futures == { uuid(i) : i \in 1..k }
  IN /\ ~crashed
     /\ UNCHANGED <<subscribed, streams, streamId, info, writeEnd, readEnd,
                    closed, completions, messages, crashed>>
     /\ IF PublishResult(resources, order) = "NOT_SUBSCRIBED"
          THEN UNCHANGED <<publishes, promise, wire, calls>>
          ELSE /\ Issued + k <= MaxUuids
               /\ wire' = [s \in Sessions |->
                    IF \E i \in 1..k : subscribed[order[i]] = s
                      THEN Append(wire[s], PublishEvent(
                             uuid(CHOOSE i \in 1..k : subscribed[order[i]] = s)))
                      ELSE wire[s]]
               /\ publishes' = [s \in Sessions |->
                    publishes[s] \cup
                      { uuid(i) : i \in { j \in 1..k : subscribed[order[j]] = s } }]
               /\ promise' = [u \in Uuids |->
                    IF u \in futures THEN "PENDING" ELSE promise[u]]
               /\ calls' = IF PublishResult(resources, order) = "COLLECT"
                              /\ futures # {}
                            THEN calls \cup {futures} ELSE calls

----------------------------------------------------------------------------
\* The HTTP runtime closes the read end of session s's pipe (the client went
\* away, or the runtime read the end of a closed stream): readerClosed() becomes
\* ready and defer dispatches the observer to the manager.
ReaderClose(s) ==
  /\ ~crashed
  /\ info[s] # 0
  /\ readEnd[s] = "OPEN"
  /\ readEnd' = [readEnd EXCEPT ![s] = "CLOSED"]
  /\ closed' = [closed EXCEPT ![s] = IF @ = "PENDING" THEN "DISPATCHED" ELSE @]
  /\ UNCHANGED <<subscribed, streams, streamId, info, writeEnd, publishes,
                 promise, completions, wire, messages, calls, crashed>>

\* The lambda subscribe passed to http.closed().onAny, for session s.
Closed(s) ==
  LET id == info[s]
      cur == subscribed[id]
  IN /\ ~crashed
     /\ closed[s] = "DISPATCHED"
     /\ closed' = [closed EXCEPT ![s] = "DONE"]
     /\ UNCHANGED <<streams, streamId, info, readEnd, wire, messages, calls>>
     /\ IF cur = 0
          THEN \* CHECK(resourceProviders.subscribed.contains(resourceProviderId))
               /\ crashed' = TRUE
               /\ UNCHANGED <<subscribed, writeEnd, publishes, promise, completions>>
          ELSE \* erase(resourceProviderId): ~ResourceProvider of the entry
               /\ subscribed' = [subscribed EXCEPT ![id] = 0]
               /\ writeEnd' = [writeEnd EXCEPT ![cur] = "CLOSED"]
               /\ promise' = FailPublishes(cur)
               /\ completions' = CountPublishes(cur)
               /\ publishes' = [publishes EXCEPT ![cur] = {}]
               /\ UNCHANGED crashed

----------------------------------------------------------------------------
\* The whole manager.
Next ==
  \/ \E req \in Requests : Api(req)
  \/ \E message \in ApplyMessages : applyOfferOperation(message)
  \/ \E pid \in ProviderIDs : acknowledgeOfferOperationUpdate(pid)
  \/ \E message \in ReconcileMessages : reconcileOfferOperations(message)
  \/ \E c \in PublishCalls : publishResources(c.resources, c.order)
  \/ \E s \in Sessions : ReaderClose(s)
  \/ \E s \in Sessions : Closed(s)

Spec == Init /\ [][Next]_vars

\* Sessions and calls: every request, the pipes and the observers; the host
\* publishes nothing and sends no offer operation event.
CallNext ==
  \/ \E req \in Requests : Api(req)
  \/ \E s \in Sessions : ReaderClose(s)
  \/ \E s \in Sessions : Closed(s)

CallSpec == Init /\ [][CallNext]_vars

\* Sessions and publishes: subscribes, publishResources and the status calls
\* that answer it, the pipes and the observers; no provider update reaches
\* the message queue and the host sends no offer operation event.
PublishNext ==
  \/ \E req \in Requests \ CallRequests : Api(req)
  \/ \E c \in PublishCalls : publishResources(c.resources, c.order)
  \/ \E s \in Sessions : ReaderClose(s)
  \/ \E s \in Sessions : Closed(s)

PublishSpec == Init /\ [][PublishNext]_vars

\* The manager with the scheduling libprocess and the HTTP runtime give it:
\* every read end is closed in the end, and a dispatched observer runs.
FairPublishSpec ==
  /\ PublishSpec
  /\ \A s \in Sessions : WF_vars(ReaderClose(s)) /\ WF_vars(Closed(s))

\* Sessions and offer operations: subscribes, the three host operations that
\* write offer operation events, the pipes and the observers.
OperationNext ==
  \/ \E req \in SubscribeRequests : Api(req)
  \/ \E message \in ApplyMessages : applyOfferOperation(message)
  \/ \E pid \in ProviderIDs : acknowledgeOfferOperationUpdate(pid)
  \/ \E message \in ReconcileMessages : reconcileOfferOperations(message)
  \/ \E s \in Sessions : ReaderClose(s)
  \/ \E s \in Sessions : Closed(s)

OperationSpec == Init /\ [][OperationNext]_vars

\* The whole manager, every request and every host operation, in runs of at
\* most BoundedSessions SUBSCRIBE calls and BoundedUuids publishes.
BoundedNext ==
  /\ Next
  /\ streams' <= BoundedSessions
  /\ Issued' <= BoundedUuids

BoundedSpec == Init /\ [][BoundedNext]_vars

----------------------------------------------------------------------------
\* A session that was constructed and whose destructor has not run.
Live(s) == info[s] # 0 /\ writeEnd[s] = "OPEN"

\* Session s1 was replaced by session s2 of the same provider, and no observer
\* has run since.
Resubscribed(s1, s2) ==
  /\ s1 < s2
  /\ info[s1] # 0
  /\ info[s1] = info[s2]
  /\ subscribed[info[s2]] = s2
  /\ closed[s1] # "NONE"
  /\ \A s \in Sessions : closed[s] # "DONE"

\* C1: when the reader-closed observer of a session instance runs, the entry
\* of its provider ID is removed if and only if the registered session is that
\* same instance; a session that replaced it stays registered and its pending
\* publishes are not touched.
C1_ObserverRemovesOnlyItsOwnSession ==
  [][\A s \in Sessions :
       Closed(s) => IF subscribed[info[s]] = s
                      THEN subscribed'[info[s]] = 0
                      ELSE UNCHANGED <<subscribed, publishes, promise>>]_vars

\* C2: every publish inserted into a session's publishes completes in the
\* end, given that every reader is closed in the end, and no promise is set or
\* failed more than once.
C2_EveryPublishCompletesOnce ==
  \A u \in Uuids :
    /\ [](completions[u] <= 1)
    /\ (promise[u] = "PENDING") ~> (promise[u] # "PENDING")

\* C3: a call other than SUBSCRIBE is answered 202 only if its Mesos-Stream-Id
\* header is the stream ID of the session registered for its provider ID; after
\* a resubscribe an UPDATE_STATE with the stream ID of the replaced session is
\* answered 400 and one with the stream ID of the new session 202.
C3_AcceptedCallsCarryTheCurrentStreamId ==
  /\ \A req \in Requests :
       (req.type # "SUBSCRIBE" /\ Response(req) = 202) =>
          /\ subscribed[req.pid] # 0
          /\ req.streamId = streamId[subscribed[req.pid]]
  /\ \A s1, s2 \in Sessions : \A req \in CallRequests :
       ( /\ s1 # s2
         /\ info[s2] # 0
         /\ info[s1] = info[s2]
         /\ subscribed[info[s2]] = s2
         /\ req.type = "UPDATE_STATE"
         /\ req.pid = info[s2] ) =>
          /\ req.streamId = streamId[s1] => Response(req) = 400
          /\ req.streamId = streamId[s2] => Response(req) = 202

\* A resubscribe happened and an UPDATE_STATE of the provider was accepted.
C3_Witness ==
  \E s1, s2 \in Sessions :
    /\ Resubscribed(s1, s2)
    /\ messages = <<[type |-> "UPDATE_STATE", arg |-> info[s2]]>>

\* C4: the sessions that are alive are exactly the registered ones, so that
\* no two live sessions have the same provider ID.
C4_OneLiveSessionPerProvider ==
  /\ \A s1, s2 \in Sessions :
       (Live(s1) /\ Live(s2) /\ info[s1] = info[s2]) => s1 = s2
  /\ \A s \in Sessions : Live(s) => subscribed[info[s]] = s
  /\ \A p \in ProviderIDs :
       subscribed[p] # 0 => Live(subscribed[p]) /\ info[subscribed[p]] = p

\* A provider resubscribed while its reader-closed observer was dispatched,
\* and another provider is registered.
C4_Witness ==
  \E s1, s2, s3 \in Sessions :
    /\ Resubscribed(s1, s2)
    /\ closed[s1] = "DISPATCHED"
    /\ Live(s2)
    /\ Live(s3)
    /\ info[s3] # info[s2]

\* C5: in the step in which a SUBSCRIBE replaces the session registered for
\* its provider ID, the writer of the replaced session is closed, every publish
\* pending on it is failed with the connection-closed error, and the new
\* session is registered with an empty publishes map.
C5_ReplacementFailsThePriorSession ==
  [][\A req \in SubscribeRequests :
       ( /\ Response(req) = 200
         /\ req.pipeOpen
         /\ req.pid # 0
         /\ subscribed[req.pid] # 0
         /\ Api(req) ) =>
          /\ subscribed'[req.pid] = streams'
          /\ subscribed'[req.pid] # subscribed[req.pid]
          /\ writeEnd'[subscribed[req.pid]] = "CLOSED"
          /\ \A u \in publishes[subscribed[req.pid]] :
               promise[u] = "PENDING" /\ promise'[u] = CONNECTION_CLOSED
          /\ publishes'[streams'] = {}]_vars

\* A session with a pending publish was replaced.
C5_Witness ==
  \E s1, s2 \in Sessions : \E u \in Uuids :
    /\ Resubscribed(s1, s2)
    /\ \E i \in 1..Len(wire[s1]) : wire[s1][i] = PublishEvent(u)
    /\ promise[u] = CONNECTION_CLOSED
    /\ publishes[s2] = {}

\* The session that holds publish u in its publishes map, 0 = none.
Holder(u) == IF \E s \in Sessions : u \in publishes[s]
               THEN CHOOSE s \in Sessions : u \in publishes[s]
             ELSE 0

\* Session s is the one registered for its provider ID.
Registered(s) == info[s] # 0 /\ subscribed[info[s]] = s

\* C6 as claimed: once the read end of the registered session is closed, a
\* publish pending on it completes in no other way than by the
\* connection-closed failure, and no combined future waiting on it succeeds.
C6_ReaderClosedFailsPendingPublishes ==
  [][\A s \in Sessions : \A u \in Uuids :
       (Registered(s) /\ readEnd[s] = "CLOSED" /\ u \in publishes[s]) =>
          /\ promise'[u] \in {"PENDING", CONNECTION_CLOSED}
          /\ \A F \in calls : u \in F => Collect(F)' # "READY"]_vars

\* C6 amended: when the reader-closed observer of the registered session
\* runs, the session is removed from the registry, every publish pending on it
\* fails with the connection-closed error, and every combined future waiting on
\* one of them fails.
C6_ObserverFailsPendingPublishes ==
  [][\A s \in Sessions :
       (Closed(s) /\ Registered(s)) =>
          /\ subscribed'[info[s]] = 0
          /\ writeEnd'[s] = "CLOSED"
          /\ \A u \in publishes[s] :
               /\ promise[u] = "PENDING"
               /\ promise'[u] = CONNECTION_CLOSED
               /\ \A F \in calls : u \in F => Collect(F)' = "FAILED"]_vars

\* The only session of a provider had a pending publish of a collected call
\* when its own observer ran.
C6_Witness ==
  \E s \in Sessions : \E u \in Uuids :
    /\ info[s] # 0
    /\ \A t \in Sessions \ {s} : info[t] # info[s]
    /\ closed[s] = "DONE"
    /\ subscribed[info[s]] = 0
    /\ \E i \in 1..Len(wire[s]) : wire[s][i] = PublishEvent(u)
    /\ promise[u] = CONNECTION_CLOSED
    /\ {u} \in calls
    /\ Collect({u}) = "FAILED"

\* C7: a publishResources call over N subscribed providers whose events were
\* all sent hands collect N pending promises, one in the publishes of each
\* provider's session; an accepted OK status sets the promise of its UUID; the
\* combined future is ready exactly when all N are, and is pending while a
\* promise of the call is still pending and none has failed.
C7_CombinedFutureOfAllGroups ==
  /\ [](\A F \in calls :
         /\ Collect(F) = "READY" <=> \A u \in F : promise[u] = "READY"
         /\ Collect(F) = "PENDING" <=>
              /\ \E u \in F : promise[u] = "PENDING" /\ Holder(u) # 0
              /\ \A u \in F : promise[u] \notin Failed
         /\ \A u \in F : promise[u] = "PENDING" <=> Holder(u) # 0)
  /\ [][/\ \A c \in PublishCalls :
            ( /\ c.resources \ {0} # {}
              /\ \A p \in c.resources \ {0} : CanSend(subscribed[p])
              /\ publishResources(c.resources, c.order) ) =>
               \E F \in calls' \ calls :
                 /\ calls' = calls \cup {F}
                 /\ Cardinality(F) = Cardinality(c.resources \ {0})
                 /\ Collect(F)' = "PENDING"
                 /\ \A p \in c.resources \ {0} :
                      \E u \in F : /\ promise[u] = "NONE"
                                   /\ u \in publishes'[subscribed[p]]
        /\ \A p \in {q \in ProviderIDs : subscribed[q] # 0} :
          \A u \in publishes[subscribed[p]] :
            \A st \in 0..MaxSessions :
              ( /\ Response(StatusRequest(p, st, u, "OK")) = 202
                /\ Api(StatusRequest(p, st, u, "OK")) ) =>
                 /\ promise'[u] = "READY"
                 /\ \A F \in calls : u \in F =>
                      Collect(F)' =
                        IF \A v \in F \ {u} : promise[v] = "READY"
                          THEN "READY" ELSE Collect(F)
        /\ \A u \in Uuids :
            (promise[u] # "READY" /\ promise'[u] = "READY") =>
               \E p \in ProviderIDs : \E st \in 0..MaxSessions :
                 /\ subscribed[p] # 0
                 /\ u \in publishes[subscribed[p]]
                 /\ Response(StatusRequest(p, st, u, "OK")) = 202
                 /\ Api(StatusRequest(p, st, u, "OK"))]_vars

\* The combined future of a call over two providers is ready.
C7_Witness ==
  \E F \in calls : Cardinality(F) = 2 /\ Collect(F) = "READY"

\* A non-OK status for a pending publish fails the combined futures it is in.
StatusFails ==
  \A p \in {q \in ProviderIDs : subscribed[q] # 0} :
          \A u \in publishes[subscribed[p]] :
    \A st \in 0..MaxSessions : \A status \in Statuses \ {"OK"} :
      ( /\ Response(StatusRequest(p, st, u, status)) = 202
        /\ Api(StatusRequest(p, st, u, status)) ) =>
         \A F \in calls : u \in F => Collect(F)' = "FAILED"

\* The removal of a session from the registry, by an observer or by a
\* SUBSCRIBE that replaces it, fails the combined futures waiting on it.
TeardownFails ==
  \A s \in Sessions :
    (Registered(s) /\ subscribed'[info[s]] # s) =>
       \A u \in publishes[s] : \A F \in calls : u \in F => Collect(F)' = "FAILED"

\* A combined future that failed stays failed.
FailureStays == \A F \in calls : Collect(F) = "FAILED" => Collect(F)' = "FAILED"

\* C8 as claimed: the combined future fails when a provider reports a non-OK
\* status, when a session with a pending publish is replaced, and when the
\* reader of such a session is closed: from then on it cannot succeed.
C8_DisconnectFailsCombinedFuture ==
  [][/\ StatusFails
     /\ TeardownFails
     /\ FailureStays
     /\ \A s \in Sessions : \A u \in publishes[s] :
          readEnd[s] = "CLOSED" =>
             \A F \in calls : u \in F => Collect(F)' # "READY"]_vars

\* C8 amended: the combined future fails when a provider reports a non-OK
\* status for its publish UUID and when a session with a pending publish is
\* removed from the registry (by a reader-closed observer or by a SUBSCRIBE
\* that replaces it), whatever the other providers reported before or report
\* afterwards.
C8_TeardownFailsCombinedFuture ==
  [][StatusFails /\ TeardownFails /\ FailureStays]_vars

\* The combined future of a call over two providers failed although one of
\* the two reported OK.
C8_Witness ==
  \E F \in calls : \E u, v \in F :
    /\ promise[u] = "READY"
    /\ promise[v] \in Failed
    /\ Collect(F) = "FAILED"

\* C9: a publishResources call that names a provider ID without a registry
\* entry returns a failure and changes nothing: no event is written, no
\* publishes entry and no promise is created.
C9_UnsubscribedProviderFailsTheCall ==
  /\ [](\A c \in PublishCalls :
         (\E p \in c.resources \ {0} : subscribed[p] = 0) =>
            PublishResult(c.resources, c.order) = "NOT_SUBSCRIBED")
  /\ [][\/ UNCHANGED vars
        \/ \A c \in PublishCalls :
             ~ /\ \E p \in c.resources \ {0} : subscribed[p] = 0
               /\ publishResources(c.resources, c.order)]_vars

\* One provider is subscribed and its pipe takes events, another is not.
C9_Witness ==
  \E p, q \in ProviderIDs :
    /\ CanSend(subscribed[p])
    /\ wire[subscribed[p]] = <<SubscribedEvent(p)>>
    /\ publishes[subscribed[p]] = {}
    /\ subscribed[q] = 0

\* C10: an accepted UPDATE_PUBLISH_RESOURCES_STATUS whose UUID is not a key of
\* the publishes of the calling session changes nothing.
C10_UnknownUuidChangesNothing ==
  [][\/ UNCHANGED vars
     \/ \A p \in ProviderIDs : \A st \in 0..MaxSessions :
          \A u \in 0..MaxUuids : \A status \in Statuses :
            ~ /\ Response(StatusRequest(p, st, u, status)) = 202
              /\ u \notin publishes[subscribed[p]]
              /\ Api(StatusRequest(p, st, u, status))]_vars

\* A registered session meets two kinds of unknown UUID: one that was
\* completed on it and one issued to the session it replaced.
C10_Witness ==
  \E s1, s2 \in Sessions : \E u, v \in Uuids :
    /\ Resubscribed(s1, s2)
    /\ \E i \in 1..Len(wire[s1]) : wire[s1][i] = PublishEvent(u)
    /\ promise[u] = CONNECTION_CLOSED
    /\ \E i \in 1..Len(wire[s2]) : wire[s2][i] = PublishEvent(v)
    /\ promise[v] = "READY"
    /\ publishes[s2] = {}

----------------------------------------------------------------------------
\* The number of entries of resourceProviders.subscribed.
RegistrySize == Cardinality({ p \in ProviderIDs : subscribed[p] # 0 })

\* C11: when a provider that was sent SUBSCRIBED with provider ID P subscribes
\* again with ID P, the registry has as many entries after the call as before,
\* the stream ID of the session registered afterwards differs from that of the
\* first session, and the writer of the first session, open before, is closed.
C11_ResubscribeKeepsTheRegistrySize ==
  [][\A req \in SubscribeRequests :
       ( /\ Response(req) = 200
         /\ req.pipeOpen
         /\ req.pid # 0
         /\ subscribed[req.pid] # 0
         /\ Api(req) ) =>
          /\ Head(wire[subscribed[req.pid]]) = SubscribedEvent(req.pid)
          /\ RegistrySize' = RegistrySize
          /\ subscribed'[req.pid] # 0
          /\ streamId'[subscribed'[req.pid]] # streamId[subscribed[req.pid]]
          /\ writeEnd[subscribed[req.pid]] = "OPEN"
          /\ writeEnd'[subscribed[req.pid]] = "CLOSED"]_vars

\* Two providers are registered and one of them has subscribed twice.
C11_Witness ==
  /\ RegistrySize = 2
  /\ \E s1, s2 \in Sessions :
       /\ Resubscribed(s1, s2)
       /\ streamId[s1] # streamId[s2]
       /\ writeEnd[s1] = "CLOSED"

----------------------------------------------------------------------------
\* The calls that put a message on the queue.
QueueCalls == {"UPDATE_OFFER_OPERATION_STATUS", "UPDATE_STATE"}

\* The message updateOfferOperationStatus or updateState builds for req.
Message(req) ==
  IF req.type = "UPDATE_STATE"
    THEN [type |-> "UPDATE_STATE", arg |-> info[subscribed[req.pid]]]
    ELSE [type |-> "UPDATE_OFFER_OPERATION_STATUS", arg |-> req.uuid]

\* C12: the queue is the sequence of the messages of the accepted
\* UPDATE_OFFER_OPERATION_STATUS and UPDATE_STATE calls in the order they were
\* handled: such a call appends its message at the back, and no other step
\* (a rejected call, SUBSCRIBE, UPDATE_PUBLISH_RESOURCES_STATUS, a host
\* operation, a reader-closed observer) changes the queue.
C12_QueueHoldsAcceptedCallsInOrder ==
  [][IF messages' = messages
       THEN \A p \in {q \in ProviderIDs : subscribed[q] # 0} :
              \A t \in QueueCalls : \A st \in 0..MaxSessions :
                ~ /\ Response(CallRequest(t, p, st)) = 202
                  /\ Api(CallRequest(t, p, st))
       ELSE \E req \in CallRequests :
              /\ Response(req) = 202
              /\ req.type \in QueueCalls
              /\ messages' = Append(messages, Message(req))
              /\ Api(req)]_vars

\* Two different messages are queued, after a host operation wrote an event
\* and a publish was completed by a status call.
C12_Witness ==
  /\ Len(messages) = 2
  /\ messages[1] # messages[2]
  /\ EventsSent > 0
  /\ \E u \in Uuids : promise[u] = "READY"

----------------------------------------------------------------------------
\* The provider ID of req has no registered session, or req has no
\* Mesos-Stream-Id header, or the header is not the stream ID of the session.
Unfenced(req) ==
  \/ subscribed[req.pid] = 0
  \/ req.streamId = 0
  \/ req.streamId # streamId[subscribed[req.pid]]

\* C13: a call other than SUBSCRIBE whose provider ID has no registered
\* session, or that has no Mesos-Stream-Id header, or whose header differs from
\* the stream ID of the registered session, is answered 400 and changes
\* nothing.
C13_UnfencedCallsAreRejected ==
  /\ [](\A req \in CallRequests \cup StatusRequests :
         Unfenced(req) => Response(req) = 400)
  /\ [][\/ UNCHANGED vars
        \/ \A req \in CallRequests \cup StatusRequests :
             ~ (Unfenced(req) /\ Api(req))]_vars

\* A provider resubscribed, so that a stale stream ID exists, while it had a
\* pending publish; the other provider is not registered and a message is
\* queued.
C13_Witness ==
  /\ \E s1, s2 \in Sessions : Resubscribed(s1, s2) /\ streamId[s1] # streamId[s2]
  /\ \E p \in ProviderIDs : subscribed[p] = 0
  /\ \E u \in Uuids : promise[u] = CONNECTION_CLOSED
  /\ messages # <<>>

----------------------------------------------------------------------------
\* The operations of the message that name provider p, by their UUIDs.
Naming(message, p) == { i \in 1..Len(message) : message[i] = p }

\* C14: reconcileOfferOperations writes exactly one RECONCILE_OFFER_OPERATIONS
\* event to the session of each subscribed provider that an operation of the
\* message names and whose pipe takes it, the event lists exactly the UUIDs of
\* the operations naming that provider, and nothing else is written or
\* changed: nothing for an unsubscribed provider or an operation without a
\* provider ID.
C14_ReconcileSendsOneEventPerProvider ==
  [][\A message \in ReconcileMessages :
       reconcileOfferOperations(message) =>
         /\ UNCHANGED HostFrame
         /\ \A s \in Sessions :
              IF Registered(s) /\ Naming(message, info[s]) # {} /\ CanSend(s)
                THEN /\ Len(wire'[s]) = Len(wire[s]) + 1
                     /\ SubSeq(wire'[s], 1, Len(wire[s])) = wire[s]
                     /\ LET event == wire'[s][Len(wire'[s])]
                        IN /\ event.type = "RECONCILE_OFFER_OPERATIONS"
                           /\ Len(event.arg) = Cardinality(Naming(message, info[s]))
                           /\ { event.arg[i] : i \in 1..Len(event.arg) }
                                = Naming(message, info[s])
                ELSE wire'[s] = wire[s]]_vars

\* One message named both registered providers: each session was sent the
\* UUID of its own operation.
C14_Witness ==
  \E s1, s2 \in Sessions :
    /\ Registered(s1) /\ Registered(s2)
    /\ wire[s1][Len(wire[s1])] = [type |-> "RECONCILE_OFFER_OPERATIONS", arg |-> <<1>>]
    /\ wire[s2][Len(wire[s2])] = [type |-> "RECONCILE_OFFER_OPERATIONS", arg |-> <<2>>]

----------------------------------------------------------------------------
\* The media type in lower case, for the spellings the requests use.
Lower(contentType) ==
  IF contentType = "Application/JSON" THEN APPLICATION_JSON ELSE contentType

\* C15: a request whose Content-Type spells a supported media type in another
\* letter case is answered like the request with the lower-case spelling, and
\* not with 415.
C15_ContentTypeIgnoresCase ==
  \A req \in Requests :
    Lower(req.contentType) \in {APPLICATION_JSON, APPLICATION_PROTOBUF} =>
      /\ Response(req) = Response([req EXCEPT !.contentType = Lower(@)])
      /\ Response(req) # 415

----------------------------------------------------------------------------
\* Publish u of session s is completed or leaves the publishes of s.
Completes(s, u) == promise'[u] # promise[u] \/ u \notin publishes'[s]

\* C16: a publish pending on a session is completed, and removed from the
\* session's publishes, only by a status call accepted for the provider of
\* that session on its current stream and carrying the UUID of the publish, or
\* by the destruction of that session; an accepted status call of another
\* provider or with another UUID leaves it pending.
C16_OnlyItsOwnStatusCompletesAPublish ==
  [][\/ UNCHANGED <<publishes, promise>>
     \/ /\ \A s \in Sessions : \A u \in publishes[s] :
             Completes(s, u) =>
               \/ /\ writeEnd[s] = "OPEN"
                  /\ writeEnd'[s] = "CLOSED"
                  /\ promise'[u] = CONNECTION_CLOSED
               \/ \E status \in Statuses :
                    /\ Registered(s)
                    /\ Response(StatusRequest(info[s], streamId[s], u, status)) = 202
                    /\ Api(StatusRequest(info[s], streamId[s], u, status))
        /\ \A req \in StatusRequests :
             (Response(req) = 202 /\ Api(req)) =>
                \A s \in Sessions : \A u \in publishes[s] :
                  (req.pid # info[s] \/ req.uuid # u) => ~Completes(s, u)]_vars

\* Two providers had a pending publish each; the status call of one of them
\* was accepted and the publish of the other is still pending.
C16_Witness ==
  \E s1, s2 \in Sessions : \E u, v \in Uuids :
    /\ Registered(s1) /\ Registered(s2)
    /\ info[s1] # info[s2]
    /\ u \in publishes[s1]
    /\ promise[u] = "PENDING"
    /\ \E i \in 1..Len(wire[s2]) : wire[s2][i] = PublishEvent(v)
    /\ promise[v] = "READY"

----------------------------------------------------------------------------
\* A PUBLISH_RESOURCES event with UUID u was written to the pipe of session s.
Written(s, u) ==
  \E i \in 1..Len(wire[s]) :
    wire[s][i].type = "PUBLISH_RESOURCES" /\ wire[s][i].arg = <<u>>

\* C17: every key of the publishes of a session belongs to a registered
\* session and is the UUID of a PUBLISH_RESOURCES event written to the pipe of
\* that session and of no other; a session holds no more keys than publish
\* events were written to it.
C17_PendingPublishesWereWritten ==
  \A s \in Sessions :
    /\ \A u \in publishes[s] :
         /\ Registered(s)
         /\ Written(s, u)
         /\ \A t \in Sessions \ {s} : ~Written(t, u)
    /\ Cardinality(publishes[s])
         <= Cardinality({ i \in 1..Len(wire[s]) :
                           wire[s][i].type = "PUBLISH_RESOURCES" })

\* A call over two providers failed at the second, whose pipe was closed:
\* the first holds the publish that was sent, the second holds none.
C17_Witness ==
  \E s1, s2 \in Sessions : \E u \in Uuids :
    /\ Registered(s1) /\ Registered(s2)
    /\ publishes[s1] = {u}
    /\ \A F \in calls : u \notin F
    /\ readEnd[s2] = "CLOSED"
    /\ publishes[s2] = {}

----------------------------------------------------------------------------
\* The first group of the visit whose session does not take the event.
FirstFailing(order) ==
  CHOOSE i \in 1..Len(order) :
    /\ ~CanSend(subscribed[order[i]])
    /\ \A j \in 1..(i - 1) : CanSend(subscribed[order[j]])

\* C18: when every provider of a publishResources call is subscribed and the
\* send for one group returns false, the call returns a failure and hands
\* nothing to collect; the failing group and the groups after it get no event
\* and no entry; each group before it has got its event and one pending entry,
\* which stays in the publishes of its session; and an entry leaves a
\* session's publishes only when its promise is completed.
C18_FailedSendKeepsEarlierPublishes ==
  [][/\ \A c \in PublishCalls :
          ( /\ \A p \in c.resources \ {0} : subscribed[p] # 0
            /\ \E i \in 1..Len(c.order) : ~CanSend(subscribed[c.order[i]]) ) =>
             LET f == FirstFailing(c.order)
             IN \/ /\ PublishResult(c.resources, c.order) = "SEND_FAILED"
                   /\ calls' = calls
                   /\ \A i \in f..Len(c.order) :
                        /\ publishes'[subscribed[c.order[i]]]
                             = publishes[subscribed[c.order[i]]]
                        /\ wire'[subscribed[c.order[i]]]
                             = wire[subscribed[c.order[i]]]
                   /\ \A i \in 1..(f - 1) :
                        \E u \in Uuids :
                          /\ promise[u] = "NONE"
                          /\ promise'[u] = "PENDING"
                          /\ publishes'[subscribed[c.order[i]]]
                               = publishes[subscribed[c.order[i]]] \cup {u}
                          /\ wire'[subscribed[c.order[i]]]
                               = Append(wire[subscribed[c.order[i]]],
                                        [type |-> "PUBLISH_RESOURCES", arg |-> <<u>>])
                   /\ Cardinality({ u \in Uuids : promise'[u] # promise[u] }) = f - 1
                \/ ~publishResources(c.resources, c.order)
     /\ \A s \in Sessions : \A u \in publishes[s] :
          u \notin publishes'[s] =>
            promise[u] = "PENDING" /\ promise'[u] # "PENDING"]_vars

\* A publish that was handed to no collect, left behind by a call that failed
\* at a later group, was completed by a status call of its provider.
C18_Witness ==
  \E u \in Uuids :
    /\ promise[u] = "READY"
    /\ \A F \in calls : u \notin F

----------------------------------------------------------------------------
\* A step of one of the four host operations that write events.
HostOperation ==
  \/ \E message \in ApplyMessages : applyOfferOperation(message)
  \/ \E pid \in ProviderIDs : acknowledgeOfferOperationUpdate(pid)
  \/ \E message \in ReconcileMessages : reconcileOfferOperations(message)
  \/ \E c \in PublishCalls : publishResources(c.resources, c.order)

\* C19: applyOfferOperation, acknowledgeOfferOperationUpdate,
\* reconcileOfferOperations and publishResources leave the registry and the
\* stream IDs of the sessions as they are, whether their sends succeed or
\* return false; the entry of a provider is removed or replaced only by a
\* reader-closed observer of that provider ID or by a SUBSCRIBE with it.
C19_FailedSendsRemoveNoSession ==
  [][/\ UNCHANGED <<subscribed, streamId>> \/ ~HostOperation
     /\ \A p \in ProviderIDs :
          (subscribed[p] # 0 /\ subscribed'[p] # subscribed[p]) =>
             \/ \E s \in Sessions : info[s] = p /\ Closed(s)
             \/ \E req \in SubscribeRequests : req.pid = p /\ Api(req)]_vars

\* A publishResources call failed at the provider whose reader is closed and
\* whose observer has not run, after an offer operation event was written:
\* the provider is still registered.
C19_Witness ==
  \E s1, s2 \in Sessions : \E u \in Uuids :
    /\ Registered(s1) /\ Registered(s2)
    /\ u \in publishes[s1]
    /\ \A F \in calls : u \notin F
    /\ ~CanSend(s2)
    /\ closed[s2] = "DISPATCHED"
    /\ EventsSent > 0

----------------------------------------------------------------------------
\* C20: a SUBSCRIBE whose SUBSCRIBED event cannot be written leaves the
\* registry as it was: the new session is not inserted and gets no
\* reader-closed observer, and the sessions that existed before, among them
\* the one registered for the same provider ID, keep their writers, their
\* publishes and their promises.
C20_FailedSubscribedWriteAbortsSubscribe ==
  [][\A req \in SubscribeRequests :
       (Response(req) = 200 /\ ~req.pipeOpen) =>
          \/ /\ UNCHANGED <<subscribed, closed, publishes, promise, completions,
                            wire, messages, calls>>
             /\ \A s \in Sessions : info[s] # 0 => writeEnd'[s] = writeEnd[s]
             /\ \A s \in Sessions :
                  info[s] = 0 => \A p \in ProviderIDs : subscribed'[p] # s
          \/ ~Api(req)]_vars

\* A SUBSCRIBE with the provider ID of a registered session that has a
\* pending publish failed to write its SUBSCRIBED event.
C20_Witness ==
  \E s1, s2 \in Sessions : \E u \in Uuids :
    /\ s1 < s2
    /\ Registered(s1)
    /\ info[s2] = info[s1]
    /\ closed[s2] = "NONE"
    /\ wire[s2] = <<>>
    /\ u \in publishes[s1]
    /\ promise[u] = "PENDING"

----------------------------------------------------------------------------
\* C21: the first event on the pipe of every session is the SUBSCRIBED event
\* with the provider ID of that session, and no later event is a SUBSCRIBED
\* event; the ID is the one the SUBSCRIBE call supplied, or an ID no session
\* has carried when it supplied none.
C21_SubscribedIsTheFirstEvent ==
  /\ [](\A s \in Sessions :
         wire[s] # <<>> =>
           /\ wire[s][1] = [type |-> "SUBSCRIBED", arg |-> <<info[s]>>]
           /\ info[s] # 0
           /\ \A i \in 2..Len(wire[s]) : wire[s][i].type # "SUBSCRIBED")
  /\ [][\A req \in SubscribeRequests :
          (Response(req) = 200 /\ req.pipeOpen) =>
             \/ /\ streams' = streams + 1
                /\ Len(wire'[streams']) = 1
                /\ wire'[streams'][1].type = "SUBSCRIBED"
                /\ IF req.pid # 0
                     THEN wire'[streams'][1].arg = <<req.pid>>
                     ELSE \E p \in ProviderIDs \ UsedIds :
                            wire'[streams'][1].arg = <<p>>
             \/ ~Api(req)]_vars

\* A session was sent SUBSCRIBED, then an offer operation event and a publish
\* event, and a later session carries a smaller provider ID.
C21_Witness ==
  \E s \in Sessions :
    /\ Len(wire[s]) = 3
    /\ wire[s][1].type = "SUBSCRIBED"
    /\ wire[s][2].type \in OperationEvents
    /\ wire[s][3].type = "PUBLISH_RESOURCES"
    /\ \E t \in Sessions : t > s /\ info[t] # 0 /\ info[t] < info[s]

----------------------------------------------------------------------------
\* C22: whenever a reader-closed observer runs, the provider ID of its session
\* is a key of the registry, so that the CHECK of the observer never fails.
C22_ObserverFindsItsProviderRegistered ==
  /\ [][\A s \in Sessions : Closed(s) => subscribed[info[s]] # 0]_vars
  /\ [](~crashed)

----------------------------------------------------------------------------
\* C23: every registered session has an open writer and only pending promises
\* in its publishes; the step that completes a promise removes it from the
\* publishes of its session; and the writer of a session is closed only in the
\* step in which the session leaves the registry.
C23_RegisteredSessionsAreOpenAndPending ==
  /\ [](\A p \in ProviderIDs :
         subscribed[p] # 0 =>
           /\ writeEnd[subscribed[p]] = "OPEN"
           /\ \A u \in publishes[subscribed[p]] : promise[u] = "PENDING")
  /\ [][/\ \A u \in Uuids :
            (promise[u] = "PENDING" /\ promise'[u] # "PENDING") =>
               /\ Holder(u) # 0
               /\ \A s \in Sessions : u \notin publishes'[s]
        /\ \A s \in Sessions :
            (info[s] # 0 /\ writeEnd[s] = "OPEN" /\ writeEnd'[s] = "CLOSED") =>
               /\ subscribed[info[s]] = s
               /\ subscribed'[info[s]] # s]_vars

\* One publish was completed by a status call and left the map, another is
\* pending on a registered session, and a session was destroyed.
C23_Witness ==
  /\ \E u \in Uuids : promise[u] = "READY" /\ Holder(u) = 0
  /\ \E v \in Uuids : promise[v] = "PENDING" /\ Registered(Holder(v))
  /\ \E s \in Sessions : info[s] # 0 /\ writeEnd[s] = "CLOSED" /\ ~Registered(s)

----------------------------------------------------------------------------
\* C24: whatever the registry contains, publishResources called with resources
\* of which none carries a provider ID (the empty set included) returns the
\* future of collect over no futures, which is ready at once, and the call
\* writes no event, adds no publishes entry and creates no promise.
C24_ResourcesWithoutProviderPublishNothing ==
  ~crashed =>
    \A c \in { d \in PublishCalls : d.resources \subseteq {0} } :
       /\ PublishResult(c.resources, c.order) = "COLLECT"
       /\ Collect({ Issued + i : i \in 1..Sent(c.order) }) = "READY"
       /\ ENABLED publishResources(c.resources, c.order)
       /\ ~ENABLED (/\ publishResources(c.resources, c.order)
                    /\ ~UNCHANGED <<wire, publishes, promise, calls>>)

\* The call can be made while one provider is registered with a pending publish
\* and a pipe that takes no more writes, and the other is not registered.
C24_Witness ==
  /\ ~crashed
  /\ ENABLED publishResources({0}, <<>>)
  /\ \E p \in ProviderIDs :
       /\ subscribed[p] # 0
       /\ ~CanSend(subscribed[p])
       /\ publishes[subscribed[p]] # {}
  /\ \E q \in ProviderIDs : subscribed[q] = 0

====
